---- MODULE Spec2Model ----
(***************************************************************************)
(* Recurring-appointment materialisation of FavaleTrainerCRM.              *)
(*                                                                         *)
(* Three handlers expand a recurrence rule into concrete instances:        *)
(*   generateRecurrentClasses       server/controllers/newScheduling       *)
(*   generateClassesFromRecurrence  routes (POST /api/new-scheduling/...)  *)
(*   the loop of POST /api/sessions routes                                 *)
(* A JavaScript Date is modelled as the integer number of minutes since    *)
(* 1970-01-01T00:00 with the server's local time equal to UTC; the Date    *)
(* setters keep JavaScript's overflow arithmetic (MakeDay).                *)
(***************************************************************************)
EXTENDS Integers, Sequences, FiniteSets, TLC

(***************************************************************************)
(* Bounds of the model.                                                    *)
(***************************************************************************)
MaxInterval == 2
MaxCount == 3
PastDays == 400
EndSpanDays == 14
MaxWindowShift == 6
MaxRequests == 2
StoreCount == 2

(***************************************************************************)
(* JavaScript Date arithmetic.                                             *)
(***************************************************************************)
MinutesPerDay == 24 * 60

DaysFromCivil(y, m, d) ==
  LET yy  == IF m <= 2 THEN y - 1 ELSE y
      era == yy \div 400
      yoe == yy - era * 400
      mp  == IF m > 2 THEN m - 3 ELSE m + 9
      doy == (153 * mp + 2) \div 5 + d - 1
      doe == yoe * 365 + yoe \div 4 - yoe \div 100 + doy
  IN  era * 146097 + doe - 719468

YearOfEra(doe) == (doe - doe \div 1460 + doe \div 36524 - doe \div 146096) \div 365

DayOfYear(doe, yoe) == doe - (365 * yoe + yoe \div 4 - yoe \div 100)

CivilOfYearDay(y, doy) ==
  LET mp == (5 * doy + 2) \div 153
      m  == IF mp < 10 THEN mp + 3 ELSE mp - 9
  IN  [y |-> y + (IF mp < 10 THEN 0 ELSE 1), m |-> m,
       d |-> doy - (153 * mp + 2) \div 5 + 1]

CivilOfEraDay(era, doe) ==
  CivilOfYearDay(YearOfEra(doe) + era * 400, DayOfYear(doe, YearOfEra(doe)))

CivilFromDays(days) ==
  CivilOfEraDay((days + 719468) \div 146097, (days + 719468) % 146097)

\* CivilFromDays tabulated once for the years the expansions visit; Civil
\* is CivilFromDays on every day number.
CivilTable ==
  [days \in DaysFromCivil(2022, 1, 1)..DaysFromCivil(2340, 1, 1) |-> CivilFromDays(days)]

Civil(days) == IF days \in DOMAIN CivilTable THEN CivilTable[days] ELSE CivilFromDays(days)

\* new Date(y, m - 1, d, hh, mi)
MkDate(y, m, d, hh, mi) == DaysFromCivil(y, m, d) * MinutesPerDay + hh * 60 + mi

DayNumber(t) == t \div MinutesPerDay
TimeOfDay(t) == t % MinutesPerDay

getDay(t) == (DayNumber(t) + 4) % 7
getDate(t) == Civil(DayNumber(t)).d
getMonth(t) == Civil(DayNumber(t)).m - 1
getFullYear(t) == Civil(DayNumber(t)).y
getHours(t) == TimeOfDay(t) \div 60
getMinutes(t) == t % 60

\* The setters do not clamp: a day past the end of the month, or an hour
\* past 23, carries into the following month or day.
setDate(t, n) ==
  (DaysFromCivil(getFullYear(t), getMonth(t) + 1, 1) + n - 1) * MinutesPerDay
    + TimeOfDay(t)

setMonth(t, k) ==
  (DaysFromCivil(getFullYear(t) + (k \div 12), (k % 12) + 1, 1) + getDate(t) - 1)
    * MinutesPerDay + TimeOfDay(t)

setFullYear(t, y) ==
  (DaysFromCivil(y, getMonth(t) + 1, 1) + getDate(t) - 1) * MinutesPerDay
    + TimeOfDay(t)

setHours(t, hh, mi) == DayNumber(t) * MinutesPerDay + hh * 60 + mi

\* Number of days of the calendar month t lies in.
DaysInMonth(t) ==
  LET c == Civil(DayNumber(t))
  IN  DaysFromCivil(c.y + (c.m \div 12), (c.m % 12) + 1, 1) - DaysFromCivil(c.y, c.m, 1)

\* Months since year 0 of the calendar month t lies in.
MonthIndex(t) == getFullYear(t) * 12 + getMonth(t)

dayNames == <<"sunday", "monday", "tuesday", "wednesday", "thursday", "friday", "saturday">>
dayNamesPt == <<"domingo", "segunda", "terca", "quarta", "quinta", "sexta", "sabado">>

(***************************************************************************)
(* generateRecurrentClasses (newScheduling.controller.ts).                 *)
(* An agendamento is [id, professorId, studentId, type, interval,          *)
(* hasWeekDays, weekDays, startDate, hasEndDate, endDate, maxOccurrences]; *)
(* maxOccurrences = 0 stands for an absent (falsy) maxOccurrences, and     *)
(* hasWeekDays = TRUE with weekDays = {} for the empty array, which is     *)
(* truthy in JavaScript.  A loop state is [cur, count, out, done].         *)
(***************************************************************************)
LoopInit(start) == [cur |-> start, count |-> 0, out |-> <<>>, done |-> FALSE]

\* maxDate: new Date() moved six months ahead.
MaxDateOf(now) == setMonth(now, getMonth(now) + 6)

Aula(ag, startTime, endTime) ==
  [agendamentoRecorrenteId |-> ag.id, professorId |-> ag.professorId,
   studentId |-> ag.studentId, startTime |-> startTime, endTime |-> endTime,
   status |-> "agendado", isModified |-> FALSE]

\* The instance built for the cursor date: the start keeps the rule's hour
\* and minute, the end is the hour after it on the cursor's own day.
GrcAula(ag, cur) ==
  LET originalStartTime == ag.startDate
      originalEndTime == setHours(originalStartTime, getHours(originalStartTime) + 1,
                                  getMinutes(originalStartTime))
  IN  Aula(ag,
           setHours(cur, getHours(originalStartTime), getMinutes(originalStartTime)),
           setHours(cur, getHours(originalEndTime), getMinutes(originalEndTime)))

\* The switch that moves the cursor to the next occurrence.
GrcAdvance(ag, cur) ==
  CASE ag.type = "daily"   -> setDate(cur, getDate(cur) + ag.interval)
    [] ag.type = "weekly"  -> setDate(cur, getDate(cur) + 7 * ag.interval)
    [] ag.type = "monthly" -> setMonth(cur, getMonth(cur) + ag.interval)
    [] ag.type = "yearly"  -> setFullYear(cur, getFullYear(cur) + ag.interval)
    [] OTHER               -> setDate(cur, getDate(cur) + 1)

\* The skip without its setDate: the cursor stays on the rejected day.
GrcSkipDay_Stuck(cur) == cur

\* The weekday filter's skip: one day forward, then continue.
GrcSkipDay(cur) == setDate(cur, getDate(cur) + 1)

\* One evaluation of the while condition and, when it holds, of the body.
generateRecurrentClassesIter(ag, maxDate, s) ==
  IF ~(s.cur <= maxDate) THEN [s EXCEPT !.done = TRUE]
  ELSE IF ag.maxOccurrences # 0 /\ s.count >= ag.maxOccurrences
    THEN [s EXCEPT !.done = TRUE]
  ELSE IF ag.hasEndDate /\ s.cur > ag.endDate THEN [s EXCEPT !.done = TRUE]
  ELSE IF /\ ag.type = "weekly"
          /\ ag.hasWeekDays
          /\ dayNames[getDay(s.cur) + 1] \notin ag.weekDays
    THEN [s EXCEPT !.cur = GrcSkipDay(s.cur)]
  ELSE [cur |-> GrcAdvance(ag, s.cur), count |-> s.count + 1,
        out |-> Append(s.out, GrcAula(ag, s.cur)), done |-> FALSE]

(***************************************************************************)
(* generateClassesFromRecurrence (routes, POST /api/new-scheduling/        *)
(* recurrent).                                                             *)
(***************************************************************************)
SafetyLimit == 100

\* The default branch of the switch; its weekly search is unreachable from
\* the switch (case 'weekly' is taken first) and is kept as written.
GcfrDefault(ag, cur) ==
  IF ag.type = "weekly" /\ ag.hasWeekDays
    THEN LET hits == {i \in 1..7 :
                        dayNames[getDay(setDate(cur, getDate(cur) + i)) + 1] \in ag.weekDays}
         IN  IF hits = {} THEN cur
             ELSE setDate(cur, getDate(cur) + (CHOOSE i \in hits : \A j \in hits : i <= j))
    ELSE cur

GcfrAdvance(ag, cur) ==
  CASE ag.type = "daily"   -> setDate(cur, getDate(cur) + ag.interval)
    [] ag.type = "weekly"  -> setDate(cur, getDate(cur) + 7 * ag.interval)
    [] ag.type = "monthly" -> setMonth(cur, getMonth(cur) + ag.interval)
    [] ag.type = "yearly"  -> setFullYear(cur, getFullYear(cur) + ag.interval)
    [] OTHER               -> GcfrDefault(ag, cur)

GcfrAula(ag, cur) == Aula(ag, cur, setHours(cur, getHours(cur) + 1, getMinutes(cur)))

generateClassesFromRecurrenceIter(ag, s) ==
  IF ag.maxOccurrences # 0 /\ s.count >= ag.maxOccurrences THEN [s EXCEPT !.done = TRUE]
  ELSE IF ag.hasEndDate /\ s.cur > ag.endDate THEN [s EXCEPT !.done = TRUE]
  ELSE IF s.count > SafetyLimit THEN [s EXCEPT !.done = TRUE]
  ELSE [cur |-> GcfrAdvance(ag, s.cur), count |-> s.count + 1,
        out |-> Append(s.out, GcfrAula(ag, s.cur)), done |-> FALSE]

(***************************************************************************)
(* The expansion loop of POST /api/sessions (routes).  A request body is   *)
(* [trainerId, leadId, startTime, endTime, recurrenceType,                 *)
(* recurrenceInterval, hasWeekDays, recurrenceWeekDays, recurrenceEndType, *)
(* recurrenceEndDate, recurrenceEndCount].                                 *)
(***************************************************************************)
DefaultMaxSessions == 100
LoopGuard == 365

MaxSessionsOf(body) ==
  IF body.recurrenceEndType = "count" THEN body.recurrenceEndCount ELSE DefaultMaxSessions

SessionAt(body, cur, out) ==
  [startTime |-> setHours(cur, getHours(body.startTime), getMinutes(body.startTime)),
   endTime   |-> setHours(cur, getHours(body.endTime), getMinutes(body.endTime)),
   isParent  |-> Len(out) = 0]

\* The walk without the jump over the skipped weeks.
SessionsWeeklyAdvance_NoJump(body, cur) == setDate(cur, getDate(cur) + 1)

\* Weekly: one day forward, and on reaching the base weekday again a jump
\* over the skipped weeks.
SessionsWeeklyAdvance(body, cur) ==
  LET next == setDate(cur, getDate(cur) + 1)
  IN  IF getDay(next) = getDay(body.startTime)
        THEN setDate(next, getDate(next) + 7 * (body.recurrenceInterval - 1))
        ELSE next

SessionsMonthlyAdvance(body, cur) == setMonth(cur, getMonth(cur) + body.recurrenceInterval)

SessionsBody(body, s) ==
  CASE body.recurrenceType = "weekly" ->
         [s EXCEPT !.out = IF /\ body.hasWeekDays
                              /\ dayNamesPt[getDay(s.cur) + 1] \in body.recurrenceWeekDays
                             THEN Append(s.out, SessionAt(body, s.cur, s.out))
                             ELSE s.out,
                   !.cur = SessionsWeeklyAdvance(body, s.cur)]
    [] body.recurrenceType = "daily" ->
         [s EXCEPT !.out = Append(s.out, SessionAt(body, s.cur, s.out)),
                   !.cur = setDate(s.cur, getDate(s.cur) + body.recurrenceInterval)]
    [] body.recurrenceType = "monthly" ->
         [s EXCEPT !.out = Append(s.out, SessionAt(body, s.cur, s.out)),
                   !.cur = SessionsMonthlyAdvance(body, s.cur)]
    [] OTHER -> s

\* sessionCount counts the iterations of the loop, not the sessions pushed.
postSessionsIter(body, s) ==
  IF ~(s.count < MaxSessionsOf(body)) THEN [s EXCEPT !.done = TRUE]
  ELSE IF body.recurrenceEndType = "date" /\ s.cur > body.recurrenceEndDate
    THEN [s EXCEPT !.done = TRUE]
  ELSE LET b == SessionsBody(body, s)
       IN  [b EXCEPT !.count = s.count + 1, !.done = (s.count + 1 > LoopGuard)]

(***************************************************************************)
(* The loops run to their exit: the iteration is applied to the loop state *)
(* until done, and the result is the list built.                           *)
(***************************************************************************)
RECURSIVE RunGenerateRecurrentClasses(_, _, _)
RunGenerateRecurrentClasses(ag, maxDate, s) ==
  IF s.done THEN s.out
  ELSE RunGenerateRecurrentClasses(ag, maxDate, generateRecurrentClassesIter(ag, maxDate, s))

generateRecurrentClasses(ag, clock) ==
  RunGenerateRecurrentClasses(ag, MaxDateOf(clock), LoopInit(ag.startDate))

RECURSIVE RunGenerateClassesFromRecurrence(_, _)
RunGenerateClassesFromRecurrence(ag, s) ==
  IF s.done THEN s.out
  ELSE RunGenerateClassesFromRecurrence(ag, generateClassesFromRecurrenceIter(ag, s))

\* The classes generateClassesFromRecurrence builds and inserts in one batch.
generateClassesFromRecurrence(ag) ==
  RunGenerateClassesFromRecurrence(ag, LoopInit(ag.startDate))

RECURSIVE RunPostSessions(_, _)
RunPostSessions(body, s) ==
  IF s.done THEN s.out ELSE RunPostSessions(body, postSessionsIter(body, s))

postSessionsExpand(body) == RunPostSessions(body, LoopInit(body.startTime))

(***************************************************************************)
(* The expansion of POST /api/appointments/recurring: a day-by-day walk    *)
(* from startDate to endDate; weeklySchedule is a sequence of              *)
(* [dayOfWeek, professorsSchedule], professorsSchedule a sequence of       *)
(* [professorId, timeSlots], a time slot [startHour, startMin, endHour,    *)
(* endMin].                                                                *)
(***************************************************************************)
SlotAppointments(timeSlots, professorId, cur, recurringId, studentId) ==
  [t \in 1..Len(timeSlots) |->
     [agendamentoRecorrenteId |-> recurringId, professorId |-> professorId,
      studentId |-> studentId,
      startTime |-> setHours(cur, timeSlots[t].startHour, timeSlots[t].startMin),
      endTime |-> setHours(cur, timeSlots[t].endHour, timeSlots[t].endMin),
      status |-> "agendado", isModified |-> FALSE]]

ProfessorAppointments(professorsSchedule, cur, recurringId, studentId) ==
  LET upTo[p \in 0..Len(professorsSchedule)] ==
        IF p = 0 THEN <<>>
        ELSE upTo[p - 1] \o SlotAppointments(professorsSchedule[p].timeSlots,
                                             professorsSchedule[p].professorId,
                                             cur, recurringId, studentId)
  IN  upTo[Len(professorsSchedule)]

\* weeklySchedule.find: the first entry of the cursor's weekday.
DayAppointments(weeklySchedule, cur, recurringId, studentId) ==
  LET hits == {i \in 1..Len(weeklySchedule) : weeklySchedule[i].dayOfWeek = getDay(cur)}
  IN  IF hits = {} THEN <<>>
      ELSE ProfessorAppointments(
             weeklySchedule[CHOOSE i \in hits : \A j \in hits : i <= j].professorsSchedule,
             cur, recurringId, studentId)

RunAppointments(weeklySchedule, start, end, recurringId, studentId) ==
  LET walk[cur \in Int] ==
        IF ~(cur <= end) THEN <<>>
        ELSE DayAppointments(weeklySchedule, cur, recurringId, studentId)
               \o walk[setDate(cur, getDate(cur) + 1)]
  IN  walk[start]

(***************************************************************************)
(* The store: the aulas, sessions, agendamentos_recorrentes and leads      *)
(* tables, and the users with role 'professor'.                            *)
(***************************************************************************)
Professors == {1, 2}

Overlaps(a1, a2, b1, b2) == a1 < b2 /\ b1 < a2

\* Minutes of tolerance around a candidate window.
Tolerance == 15

\* storage.checkSchedulingConflicts: the aulas of the professor, the excluded
\* one and the cancelled ones apart, that the padded candidate window
\* overlaps (exclude = 0 excludes none).
checkSchedulingConflicts(rows, professorId, studentId, startTime, endTime, exclude) ==
  {a \in rows :
     /\ a.id # exclude
     /\ a.professorId = professorId
     /\ a.status # "cancelado"
     /\ Overlaps(startTime - Tolerance, endTime + Tolerance, a.startTime, a.endTime)}

\* storage.createMultipleAulas, and db.insert(aulas).values(classes): one
\* INSERT of the whole batch, ids in batch order from firstId.  The columns
\* the batch does not give, originalStartTime and originalEndTime, are null
\* (0).
InsertAulas(rows, batch, firstId) ==
  rows \cup {[id |-> firstId + i - 1,
              agendamentoRecorrenteId |-> batch[i].agendamentoRecorrenteId,
              professorId |-> batch[i].professorId,
              studentId |-> batch[i].studentId,
              startTime |-> batch[i].startTime,
              endTime |-> batch[i].endTime,
              status |-> batch[i].status,
              isModified |-> batch[i].isModified,
              originalStartTime |-> 0,
              originalEndTime |-> 0] : i \in 1..Len(batch)}

\* The INSERTs of POST /api/sessions, one statement per session: the first
\* n sessions of the batch as rows.  parentSessionId is the id of the first
\* row once it is inserted, null (0) for the first row itself.
InsertSessions(rows, body, batch, groupId, firstId, n) ==
  rows \cup {[id |-> firstId + i - 1,
              startTime |-> batch[i].startTime,
              endTime |-> batch[i].endTime,
              leadId |-> body.leadId,
              trainerId |-> body.trainerId,
              status |-> "agendado",
              recurrenceGroupId |-> groupId,
              isRecurrenceParent |-> batch[i].isParent,
              parentSessionId |-> IF i = 1 THEN 0 ELSE firstId] : i \in 1..n}

(***************************************************************************)
(* Request inputs.                                                         *)
(***************************************************************************)
RecurrenceTypes == {"daily", "weekly", "monthly", "yearly", "custom"}

\* new Date() of the server when a request is handled.
NowSet == {MkDate(2024, 1, 1, 8, 0)}

\* A Monday, a Tuesday in the morning and in its last hour, a Friday, the
\* 31st of a month, and a day far in the past.
StartDates ==
  {MkDate(2024, 1, 1, 9, 0), MkDate(2024, 1, 2, 9, 0), MkDate(2024, 1, 2, 23, 30),
   MkDate(2024, 1, 5, 9, 0), MkDate(2024, 1, 31, 9, 0),
   MkDate(2024, 1, 1, 9, 0) - PastDays * MinutesPerDay}

WeekDayChoices ==
  {[has |-> FALSE, days |-> {}], [has |-> TRUE, days |-> {}],
   [has |-> TRUE, days |-> {"monday", "wednesday"}], [has |-> TRUE, days |-> {"friday"}],
   [has |-> TRUE, days |-> {"tuesday"}]}

WeekDayChoicesPt ==
  {[has |-> FALSE, days |-> {}], [has |-> TRUE, days |-> {}],
   [has |-> TRUE, days |-> {"segunda", "quarta"}], [has |-> TRUE, days |-> {"sexta"}],
   [has |-> TRUE, days |-> {"terca"}]}

\* weekDays accompanies weekly rules only.
WeekDaysFor(type, choices) ==
  IF type = "weekly" THEN choices ELSE {[has |-> FALSE, days |-> {}]}

\* End conditions: none, a count, or the midnight EndSpanDays days after the start.
EndChoices(start) ==
  {[type |-> "never", date |-> 0, count |-> 0]}
    \cup {[type |-> "count", date |-> 0, count |-> n] : n \in 1..MaxCount}
    \cup {[type |-> "date", date |-> setHours(start + EndSpanDays * MinutesPerDay, 0, 0),
           count |-> 0]}

Agendamento(id, prof, student, type, interval, wd, start, end) ==
  [id |-> id, professorId |-> prof, studentId |-> student, type |-> type,
   interval |-> interval, hasWeekDays |-> wd.has, weekDays |-> wd.days,
   startDate |-> start, hasEndDate |-> (end.type = "date"), endDate |-> end.date,
   maxOccurrences |-> end.count]

SessionBody(trainer, lead, type, interval, wd, start, end) ==
  [trainerId |-> trainer, leadId |-> lead, startTime |-> start, endTime |-> start + 60,
   recurrenceType |-> type, recurrenceInterval |-> interval, hasWeekDays |-> wd.has,
   recurrenceWeekDays |-> wd.days, recurrenceEndType |-> end.type,
   recurrenceEndDate |-> end.date, recurrenceEndCount |-> end.count]

\* agendamentoRecorrenteValidationSchema.parse: the rule of the data model,
\* a known recurrence type repeated every positive whole number of units.
agendamentoRecorrenteValidationSchema(ag) ==
  /\ ag.type \in RecurrenceTypes
  /\ ag.interval >= 1

(***************************************************************************)
(* State.  The tables of the store, the id sequences, the count of handled *)
(* requests and the last response [op, status, batch] (batch: the rule or  *)
(* group id of the instances the request built).  xpc, xin and xs are one  *)
(* run of an expansion loop: the loop that runs, its rule and its loop     *)
(* state; now is the clock the handlers read.                              *)
(***************************************************************************)
VARIABLES aulas, sessions, agendamentos, leads, ids, requests, last, xpc, xin, xs, now

store == <<aulas, sessions, agendamentos, leads, ids, requests, last>>
vars == <<aulas, sessions, agendamentos, leads, ids, requests, last, xpc, xin, xs, now>>

NoInput == [type |-> "none"]

InitStore ==
  /\ aulas = {}
  /\ sessions = {}
  /\ agendamentos = {}
  /\ leads = {1}
  /\ ids = [aula |-> 1, session |-> 1, agendamento |-> 1, group |-> 1, lead |-> 2]
  /\ requests = 0
  /\ last = [op |-> "none", status |-> 0, batch |-> 0]

InitLoop ==
  /\ xpc = "idle"
  /\ xin = NoInput
  /\ xs = LoopInit(0)
  /\ now \in NowSet

InitExpand == InitStore /\ InitLoop

\* createRecurrentScheduling hands the validated rule to generateRecurrentClasses.
StartGenerateRecurrentClasses ==
  /\ xpc = "idle"
  /\ \E type \in RecurrenceTypes, interval \in 0..MaxInterval, start \in StartDates :
       \E wd \in WeekDaysFor(type, WeekDayChoices), end \in EndChoices(start) :
         LET ag == Agendamento(1, 1, 1, type, interval, wd, start, end)
         IN  /\ agendamentoRecorrenteValidationSchema(ag)
             /\ xin' = ag
             /\ xs' = LoopInit(ag.startDate)
  /\ xpc' = "grc"
  /\ UNCHANGED <<store, now>>

GenerateRecurrentClassesLoop ==
  /\ xpc = "grc"
  /\ ~xs.done
  /\ xs' = generateRecurrentClassesIter(xin, MaxDateOf(now), xs)
  /\ UNCHANGED <<store, xpc, xin, now>>

\* POST /api/new-scheduling/recurrent hands the request body, unvalidated,
\* to generateClassesFromRecurrence.
StartGenerateClassesFromRecurrence ==
  /\ xpc = "idle"
  /\ \E type \in RecurrenceTypes, interval \in 0..MaxInterval, start \in StartDates :
       \E wd \in WeekDaysFor(type, WeekDayChoices), end \in EndChoices(start) :
         LET ag == Agendamento(1, 1, 1, type, interval, wd, start, end)
         IN  /\ xin' = ag
             /\ xs' = LoopInit(ag.startDate)
  /\ xpc' = "gcfr"
  /\ UNCHANGED <<store, now>>

GenerateClassesFromRecurrenceLoop ==
  /\ xpc = "gcfr"
  /\ ~xs.done
  /\ xs' = generateClassesFromRecurrenceIter(xin, xs)
  /\ UNCHANGED <<store, xpc, xin, now>>

\* POST /api/sessions with a recurrenceType other than 'none'.
StartPostSessions ==
  /\ xpc = "idle"
  /\ \E type \in RecurrenceTypes, interval \in 0..MaxInterval, start \in StartDates :
       \E wd \in WeekDaysFor(type, WeekDayChoicesPt), end \in EndChoices(start) :
         LET body == SessionBody(1, 1, type, interval, wd, start, end)
         IN  /\ xin' = body
             /\ xs' = LoopInit(body.startTime)
  /\ xpc' = "sess"
  /\ UNCHANGED <<store, now>>

PostSessionsLoop ==
  /\ xpc = "sess"
  /\ ~xs.done
  /\ xs' = postSessionsIter(xin, xs)
  /\ UNCHANGED <<store, xpc, xin, now>>

ExpandLoop ==
  \/ GenerateRecurrentClassesLoop
  \/ GenerateClassesFromRecurrenceLoop
  \/ PostSessionsLoop

NextExpand ==
  \/ StartGenerateRecurrentClasses
  \/ StartGenerateClassesFromRecurrence
  \/ StartPostSessions
  \/ ExpandLoop

SpecExpand == InitExpand /\ [][NextExpand]_vars

\* The loops are synchronous code: a loop that can take a step takes it.
FairSpecExpand == SpecExpand /\ WF_vars(ExpandLoop)

(***************************************************************************)
(* The handlers, one request each (Spec).                                  *)
(***************************************************************************)
\* Two start times an hour-long class overlaps across, on a Tuesday.
StoreStarts == {MkDate(2024, 1, 2, 9, 0), MkDate(2024, 1, 2, 9, 30)}
StoreTypes == {"daily", "weekly"}
StoreWeekDays(type, names) ==
  IF type = "weekly" THEN [has |-> TRUE, days |-> {names[3]}] ELSE [has |-> FALSE, days |-> {}]
StoreEnd == [type |-> "count", date |-> 0, count |-> StoreCount]

\* User ids of a request: the professors and a user who is none.
UserIds == Professors \cup {3}
\* Lead ids of a request: the lead of the store and an unknown one.
LeadIds == {1, 9}

Respond(op, status, batch) ==
  /\ last' = [op |-> op, status |-> status, batch |-> batch]
  /\ requests' = requests + 1

\* The indexes of the candidates storage.checkSchedulingConflicts reports.
ConflictsOf(rows, batch) ==
  {i \in 1..Len(batch) :
     checkSchedulingConflicts(rows, batch[i].professorId, batch[i].studentId,
                              batch[i].startTime, batch[i].endTime, 0) # {}}

\* createRecurrentScheduling on a request body; dbFails: createMultipleAulas
\* throws.
createRecurrentScheduling(body, dbFails) ==
  IF ~agendamentoRecorrenteValidationSchema(body)
    THEN /\ Respond("createRecurrentScheduling", 400, 0)
         /\ UNCHANGED <<aulas, sessions, agendamentos, leads, ids>>
  ELSE IF body.professorId \notin Professors \/ body.studentId \notin leads
    THEN /\ Respond("createRecurrentScheduling", 400, 0)
         /\ UNCHANGED <<aulas, sessions, agendamentos, leads, ids>>
  ELSE LET agendamento == [body EXCEPT !.id = ids.agendamento]
           batch == generateRecurrentClasses(agendamento, now)
           conflicts == ConflictsOf(aulas, batch)
       IN  /\ agendamentos' = agendamentos \cup {agendamento}
           /\ UNCHANGED <<sessions, leads>>
           /\ IF conflicts # {}
                THEN /\ Respond("createRecurrentScheduling", 409, agendamento.id)
                     /\ ids' = [ids EXCEPT !.agendamento = @ + 1]
                     /\ UNCHANGED aulas
              ELSE IF dbFails
                THEN /\ Respond("createRecurrentScheduling", 500, agendamento.id)
                     /\ ids' = [ids EXCEPT !.agendamento = @ + 1]
                     /\ UNCHANGED aulas
              ELSE /\ Respond("createRecurrentScheduling", 201, agendamento.id)
                   /\ aulas' = InsertAulas(aulas, batch, ids.aula)
                   /\ ids' = [ids EXCEPT !.agendamento = @ + 1, !.aula = @ + Len(batch)]

CreateRecurrentScheduling ==
  /\ requests < MaxRequests
  /\ \E type \in StoreTypes, start \in StoreStarts, interval \in {0, 1},
        professorId \in UserIds, studentId \in LeadIds, dbFails \in BOOLEAN :
       /\ (interval = 0 \/ professorId = 3 \/ studentId = 9) =>
            (type = "daily" /\ start = MkDate(2024, 1, 2, 9, 0) /\ ~dbFails)
       /\ createRecurrentScheduling(
            Agendamento(0, professorId, studentId, type, interval,
                        StoreWeekDays(type, dayNames), start, StoreEnd), dbFails)
  /\ UNCHANGED <<xpc, xin, xs, now>>

\* POST /api/new-scheduling/recurrent; dbFails: the INSERT of the classes
\* throws.
postNewSchedulingRecurrent(body, dbFails) ==
  LET agendamento == [body EXCEPT !.id = ids.agendamento]
      classes == generateClassesFromRecurrence(agendamento)
  IN  /\ agendamentos' = agendamentos \cup {agendamento}
      /\ UNCHANGED <<sessions, leads>>
      /\ IF dbFails /\ Len(classes) > 0
           THEN /\ Respond("postNewSchedulingRecurrent", 500, agendamento.id)
                /\ ids' = [ids EXCEPT !.agendamento = @ + 1]
                /\ UNCHANGED aulas
         ELSE /\ Respond("postNewSchedulingRecurrent", 200, agendamento.id)
              /\ aulas' = InsertAulas(aulas, classes, ids.aula)
              /\ ids' = [ids EXCEPT !.agendamento = @ + 1, !.aula = @ + Len(classes)]

PostNewSchedulingRecurrent ==
  /\ requests < MaxRequests
  /\ \E type \in StoreTypes, start \in StoreStarts, interval \in {0, 1},
        professorId \in Professors, dbFails \in BOOLEAN :
       /\ (interval = 0 \/ dbFails) => (type = "daily" /\ start = MkDate(2024, 1, 2, 9, 0))
       /\ postNewSchedulingRecurrent(
            Agendamento(0, professorId, 1, type, interval,
                        StoreWeekDays(type, dayNames), start, StoreEnd), dbFails)
  /\ UNCHANGED <<xpc, xin, xs, now>>

\* POST /api/appointments/recurring on [studentName, startDate, endDate,
\* weeklySchedule]; a student is named by the id the leads table gives it.
postAppointmentsRecurring(body) ==
  IF body.weeklySchedule = <<>>
    THEN /\ Respond("postAppointmentsRecurring", 400, 0)
         /\ UNCHANGED <<aulas, sessions, agendamentos, leads, ids>>
  ELSE LET known == body.studentName \in leads
           studentId == IF known THEN body.studentName ELSE ids.lead
           leadsNow == leads \cup {studentId}
           first == body.weeklySchedule[1].professorsSchedule
       IN  /\ leads' = leadsNow
           /\ UNCHANGED sessions
           /\ IF first = <<>>
                THEN /\ Respond("postAppointmentsRecurring", 400, 0)
                     /\ ids' = [ids EXCEPT !.lead = IF known THEN @ ELSE @ + 1]
                     /\ UNCHANGED <<aulas, agendamentos>>
              ELSE LET recurringId == ids.agendamento
                       appointments ==
                         RunAppointments(body.weeklySchedule, body.startDate, body.endDate,
                                         recurringId, studentId)
                   IN  /\ agendamentos' = agendamentos \cup
                            {[id |-> recurringId, professorId |-> first[1].professorId,
                              studentId |-> studentId, type |-> "weeklySchedule",
                              startDate |-> body.startDate, endDate |-> body.endDate]}
                       /\ aulas' = InsertAulas(aulas, appointments, ids.aula)
                       /\ ids' = [ids EXCEPT !.agendamento = @ + 1,
                                             !.aula = @ + Len(appointments),
                                             !.lead = IF known THEN @ ELSE @ + 1]
                       /\ Respond("postAppointmentsRecurring", 200, recurringId)

\* The weekly schedules of the requests: none, Tuesdays 09:00-10:00 with one
\* professor, Tuesdays 09:30-10:30 with another, a day without a professor.
WeeklySchedules ==
  {<<>>,
   <<[dayOfWeek |-> 2,
      professorsSchedule |->
        <<[professorId |-> 1,
           timeSlots |-> <<[startHour |-> 9, startMin |-> 0, endHour |-> 10, endMin |-> 0]>>]>>]>>,
   <<[dayOfWeek |-> 2,
      professorsSchedule |->
        <<[professorId |-> 2,
           timeSlots |-> <<[startHour |-> 9, startMin |-> 30, endHour |-> 10, endMin |-> 30]>>]>>]>>,
   <<[dayOfWeek |-> 2, professorsSchedule |-> <<>>]>>}

PostAppointmentsRecurring ==
  /\ requests < MaxRequests
  /\ \E weeklySchedule \in WeeklySchedules, studentName \in {1, 2} :
       postAppointmentsRecurring(
         [studentName |-> studentName, weeklySchedule |-> weeklySchedule,
          startDate |-> MkDate(2024, 1, 2, 0, 0),
          endDate |-> MkDate(2024, 1, 2, 0, 0) + 7 * (StoreCount - 1) * MinutesPerDay])
  /\ UNCHANGED <<xpc, xin, xs, now>>

\* POST /api/sessions; failAt = k > 0: the k-th INSERT throws, 0: none does.
\* The handler takes recurrenceInterval as the request gives it, a negative
\* one included.
postSessions(body, failAt) ==
  IF body.recurrenceType = "none"
    THEN /\ UNCHANGED <<aulas, agendamentos, leads>>
         /\ IF failAt = 1
              THEN /\ Respond("postSessions", 500, 0)
                   /\ UNCHANGED <<sessions, ids>>
            ELSE /\ sessions' = sessions \cup
                      {[id |-> ids.session, startTime |-> body.startTime,
                        endTime |-> body.endTime, leadId |-> body.leadId,
                        trainerId |-> body.trainerId, status |-> "agendado",
                        recurrenceGroupId |-> 0, isRecurrenceParent |-> FALSE,
                        parentSessionId |-> 0]}
                 /\ ids' = [ids EXCEPT !.session = @ + 1]
                 /\ Respond("postSessions", 200, 0)
  ELSE LET recurrenceGroupId == ids.group
           batch == postSessionsExpand(body)
           inserted == IF failAt \in 1..Len(batch) THEN failAt - 1 ELSE Len(batch)
       IN  /\ UNCHANGED <<aulas, agendamentos, leads>>
           /\ sessions' = InsertSessions(sessions, body, batch, recurrenceGroupId,
                                         ids.session, inserted)
           /\ ids' = [ids EXCEPT !.group = @ + 1, !.session = @ + inserted]
           /\ Respond("postSessions", IF inserted < Len(batch) THEN 500 ELSE 200,
                      recurrenceGroupId)

PostSessions ==
  /\ requests < MaxRequests
  /\ \E type \in StoreTypes \cup {"none"}, start \in StoreStarts, interval \in {-1, 1},
        trainerId \in Professors, failAt \in 0..StoreCount :
       /\ failAt > 0 => (start = MkDate(2024, 1, 2, 9, 0) /\ trainerId = 1)
       /\ interval < 1 => (type = "daily" /\ failAt = 0 /\ trainerId = 1)
       /\ postSessions(SessionBody(trainerId, 1, type, interval,
                                   StoreWeekDays(type, dayNamesPt), start, StoreEnd), failAt)
  /\ UNCHANGED <<xpc, xin, xs, now>>

Init == InitStore /\ InitLoop

Next ==
  \/ CreateRecurrentScheduling
  \/ PostNewSchedulingRecurrent
  \/ PostAppointmentsRecurring
  \/ PostSessions

Spec == Init /\ [][Next]_vars

(***************************************************************************)
(* POST /api/sessions/check-conflicts and PATCH /api/sessions/:id          *)
(* (SpecConflicts).  A check request is [trainerId, date, startTime,       *)
(* endTime]: date a day number, the times minutes of that day, trainerId 0 *)
(* a missing parameter.                                                    *)
(***************************************************************************)
MaxRows == 2
MaxConflictSteps == 4

SessionStatuses == {"agendado", "cancelado", "concluido"}

\* SQL's x BETWEEN lo AND hi: both ends included.
Between(x, lo, hi) == lo <= x /\ x <= hi

\* The status filter with every status accepted.
SessionIsBooked_Any(s) == TRUE

\* s.status = 'agendado'
SessionIsBooked(s) == s.status = "agendado"

\* The WHERE clause of both queries of the handler: the trainer's booked
\* sessions that start on the date and have their start or their end inside
\* [lo, hi], or that cover [startTime, endTime].
SessionsBusy(rows, trainerId, date, lo, hi, startTime, endTime) ==
  {s \in rows :
     /\ s.trainerId = trainerId
     /\ SessionIsBooked(s)
     /\ DayNumber(s.startTime) = date
     /\ \/ Between(s.startTime, lo, hi)
        \/ Between(s.endTime, lo, hi)
        \/ (s.startTime <= startTime /\ s.endTime >= endTime)}

\* Minutes of tolerance around the candidate window.
ToleranceMinutes == 15

\* The ladder of slot starts, 06:00 to 20:30 by half hours, and the number
\* of its slots the handler probes.
TimeSlots == [i \in 1..30 |-> 360 + 30 * (i - 1)]
ProbedSlots == 5

\* The probed slots without a booked session, in ladder order.
SuggestedTimes(rows, trainerId, date, duration) ==
  SelectSeq(SubSeq(TimeSlots, 1, ProbedSlots),
            LAMBDA slot :
              SessionsBusy(rows, trainerId, date,
                           date * MinutesPerDay + slot,
                           date * MinutesPerDay + slot + duration,
                           date * MinutesPerDay + slot,
                           date * MinutesPerDay + slot + duration) = {})

RespondConflicts(body, status, conflicts, suggestions) ==
  /\ last' = [op |-> "checkSessionConflicts", status |-> status, batch |-> 0,
              request |-> body, conflicts |-> conflicts, suggestions |-> suggestions]
  /\ requests' = requests + 1

checkSessionConflicts(body) ==
  /\ UNCHANGED <<aulas, sessions, agendamentos, leads, ids>>
  /\ IF body.trainerId = 0
       THEN RespondConflicts(body, 400, {}, <<>>)
     ELSE LET startDateTime == body.date * MinutesPerDay + body.startTime
              endDateTime == body.date * MinutesPerDay + body.endTime
              rows == {s \in SessionsBusy(sessions, body.trainerId, body.date,
                                          startDateTime - ToleranceMinutes,
                                          endDateTime + ToleranceMinutes,
                                          startDateTime, endDateTime) :
                         s.leadId \in leads}
          IN  RespondConflicts(body, 200, {s.id : s \in rows},
                               IF rows = {} THEN <<>>
                               ELSE SuggestedTimes(sessions, body.trainerId, body.date,
                                                   endDateTime - startDateTime))

\* PATCH /api/sessions/:id on [startTime, endTime, status, other]: a field
\* of 0 or "" is absent from the body, other stands for location and notes.
patchSession(sessionId, updates) ==
  /\ UNCHANGED <<aulas, agendamentos, leads, ids>>
  /\ IF updates.startTime = 0 /\ updates.endTime = 0 /\ updates.status = "" /\ ~updates.other
       THEN /\ Respond("patchSession", 400, 0)
            /\ UNCHANGED sessions
     ELSE /\ Respond("patchSession", 200, 0)
          /\ sessions' =
               {IF s.id # sessionId THEN s
                ELSE [s EXCEPT
                        !.startTime = IF updates.startTime # 0 THEN updates.startTime ELSE @,
                        !.endTime = IF updates.endTime # 0 THEN updates.endTime ELSE @,
                        !.status = IF updates.status # "" THEN updates.status ELSE @] :
                  s \in sessions}

\* The windows of the sessions and of the candidates, around 2024-01-02: a
\* morning session, one that ends and one that starts a quarter of an hour
\* off the candidate, and a late one on the day before; the last candidate
\* ends before it starts.
CheckDate == DaysFromCivil(2024, 1, 2)
SessionWindows ==
  {[startTime |-> MkDate(2024, 1, 2, 8, 30), endTime |-> MkDate(2024, 1, 2, 9, 10)],
   [startTime |-> MkDate(2024, 1, 2, 7, 0), endTime |-> MkDate(2024, 1, 2, 8, 50)],
   [startTime |-> MkDate(2024, 1, 2, 10, 15), endTime |-> MkDate(2024, 1, 2, 11, 0)],
   [startTime |-> MkDate(2024, 1, 1, 23, 0), endTime |-> MkDate(2024, 1, 1, 23, 55)]}
CandidateWindows ==
  {[startTime |-> 9 * 60 + 5, endTime |-> 10 * 60], [startTime |-> 5, endTime |-> 60],
   [startTime |-> 10 * 60, endTime |-> 9 * 60 + 5]}

CreateSession ==
  /\ requests < MaxConflictSteps
  /\ Cardinality(sessions) < MaxRows
  /\ \E w \in SessionWindows, trainerId \in Professors :
       postSessions([SessionBody(trainerId, 1, "none", 1, [has |-> FALSE, days |-> {}],
                                 w.startTime, StoreEnd) EXCEPT !.endTime = w.endTime], 0)
  /\ UNCHANGED <<xpc, xin, xs, now>>

PatchSession ==
  /\ requests < MaxConflictSteps
  /\ \E sessionId \in 1..MaxRows, status \in SessionStatuses \cup {""} :
       patchSession(sessionId, [startTime |-> 0, endTime |-> 0, status |-> status,
                                other |-> FALSE])
  /\ UNCHANGED <<xpc, xin, xs, now>>

CheckSessionConflicts ==
  /\ requests < MaxConflictSteps
  /\ \E w \in CandidateWindows, trainerId \in {0, 1} :
       /\ trainerId = 0 => w.startTime = 5
       /\ checkSessionConflicts([trainerId |-> trainerId, date |-> CheckDate,
                                 startTime |-> w.startTime, endTime |-> w.endTime])
  /\ UNCHANGED <<xpc, xin, xs, now>>

NextConflicts ==
  \/ CreateSession
  \/ PatchSession
  \/ CheckSessionConflicts

SpecConflicts == Init /\ [][NextConflicts]_vars

(***************************************************************************)
(* The validation and the commit of createRecurrentScheduling as a step of *)
(* its own, on a batch given from outside (SpecBatch): what the loop over  *)
(* the candidates does with a batch, whatever expansion built it.          *)
(***************************************************************************)
MaxBatches == 2

\* Starts of hour-long candidates: two that overlap and one a day later.
BatchStarts ==
  {MkDate(2024, 1, 2, 9, 0), MkDate(2024, 1, 2, 9, 30), MkDate(2024, 1, 3, 9, 0)}

\* createRecurrentScheduling from the stored rule on: the conflict loop over
\* the candidates, the 409, and createMultipleAulas.
validateAndCreate(agendamento, batch) ==
  LET conflicts == ConflictsOf(aulas, batch)
  IN  /\ agendamentos' = agendamentos \cup {agendamento}
      /\ UNCHANGED <<sessions, leads>>
      /\ IF conflicts # {}
           THEN /\ Respond("validateAndCreate", 409, agendamento.id)
                /\ ids' = [ids EXCEPT !.agendamento = @ + 1]
                /\ UNCHANGED aulas
         ELSE /\ Respond("validateAndCreate", 201, agendamento.id)
              /\ aulas' = InsertAulas(aulas, batch, ids.aula)
              /\ ids' = [ids EXCEPT !.agendamento = @ + 1, !.aula = @ + Len(batch)]

ValidateAndCreate ==
  /\ requests < MaxBatches
  /\ \E professorId \in Professors, s1 \in BatchStarts, s2 \in BatchStarts :
       LET agendamento == Agendamento(ids.agendamento, professorId, 1, "daily", 1,
                                      [has |-> FALSE, days |-> {}], s1, StoreEnd)
       IN  validateAndCreate(agendamento,
                             <<Aula(agendamento, s1, s1 + 60), Aula(agendamento, s2, s2 + 60)>>)
  /\ UNCHANGED <<xpc, xin, xs, now>>

SpecBatch == Init /\ [][ValidateAndCreate]_vars

(***************************************************************************)
(* The edit of one instance and the conflict query of the controller       *)
(* (SpecUpdate).  An update body is [startTime, endTime, professorId,      *)
(* status]: 0 and "" are fields the body does not carry.  An aula id of -1 *)
(* is a path parameter that parseInt turns into NaN.                       *)
(***************************************************************************)
MaxUpdateSteps == 3

\* aulaValidationSchema.partial().parse: every field optional, a status of
\* the vocabulary, and a window given whole ends after it starts.
aulaValidationSchemaPartial(body) ==
  /\ body.status \in SessionStatuses \cup {""}
  /\ (body.startTime # 0 /\ body.endTime # 0) => body.endTime > body.startTime

\* An update that reaches every aula of the series of that id.
updateAula_Series(rows, aulaId, data) ==
  {IF \A r \in rows : r.id = aulaId => r.agendamentoRecorrenteId # a.agendamentoRecorrenteId
     THEN a
   ELSE [a EXCEPT
           !.startTime = IF data.startTime # 0 THEN data.startTime ELSE @,
           !.endTime = IF data.endTime # 0 THEN data.endTime ELSE @,
           !.status = IF data.status # "" THEN data.status ELSE @,
           !.isModified = IF data.setModified THEN TRUE ELSE @] :
     a \in rows}

\* storage.updateAula: the row of that id with the given fields replaced.
updateAula(rows, aulaId, data) ==
  {IF a.id # aulaId THEN a
   ELSE [a EXCEPT
           !.startTime = IF data.startTime # 0 THEN data.startTime ELSE @,
           !.endTime = IF data.endTime # 0 THEN data.endTime ELSE @,
           !.professorId = IF data.professorId # 0 THEN data.professorId ELSE @,
           !.status = IF data.status # "" THEN data.status ELSE @,
           !.isModified = IF data.setModified THEN TRUE ELSE @,
           !.originalStartTime = IF data.originalStartTime # 0 THEN data.originalStartTime ELSE @,
           !.originalEndTime = IF data.originalEndTime # 0 THEN data.originalEndTime ELSE @] :
     a \in rows}

\* The response to an update or to a conflict query of the controller.
RespondUpdate(op, status, aulaId, body, hasConflict) ==
  /\ last' = [op |-> op, status |-> status, batch |-> 0, id |-> aulaId,
              request |-> body, hasConflict |-> hasConflict]
  /\ requests' = requests + 1

\* The update data without the marks of a modification.
Unmarked(body) ==
  [startTime |-> body.startTime, endTime |-> body.endTime,
   professorId |-> body.professorId, status |-> body.status,
   setModified |-> FALSE, originalStartTime |-> 0, originalEndTime |-> 0]

updateClass(aulaId, body) ==
  /\ UNCHANGED <<sessions, agendamentos, leads, ids>>
  /\ IF aulaId = -1
       THEN RespondUpdate("updateClass", 400, aulaId, body, FALSE) /\ UNCHANGED aulas
     ELSE IF ~aulaValidationSchemaPartial(body)
       THEN RespondUpdate("updateClass", 400, aulaId, body, FALSE) /\ UNCHANGED aulas
     ELSE IF ~\E a \in aulas : a.id = aulaId
       THEN RespondUpdate("updateClass", 404, aulaId, body, FALSE) /\ UNCHANGED aulas
     ELSE LET existingAula == CHOOSE a \in aulas : a.id = aulaId
              timed == body.startTime # 0 \/ body.endTime # 0
              startTime == IF body.startTime # 0 THEN body.startTime ELSE existingAula.startTime
              endTime == IF body.endTime # 0 THEN body.endTime ELSE existingAula.endTime
              professorId == IF body.professorId # 0 THEN body.professorId
                             ELSE existingAula.professorId
              hasConflict ==
                timed /\ checkSchedulingConflicts(aulas, professorId, existingAula.studentId,
                                                  startTime, endTime, aulaId) # {}
              snapshot == existingAula.originalStartTime = 0
              validatedData ==
                IF timed
                  THEN [Unmarked(body) EXCEPT
                          !.setModified = TRUE,
                          !.originalStartTime = IF snapshot THEN existingAula.startTime ELSE 0,
                          !.originalEndTime = IF snapshot THEN existingAula.endTime ELSE 0]
                ELSE Unmarked(body)
          IN  IF hasConflict
                THEN RespondUpdate("updateClass", 409, aulaId, body, TRUE) /\ UNCHANGED aulas
              ELSE /\ RespondUpdate("updateClass", 200, aulaId, body, FALSE)
                   /\ aulas' = updateAula(aulas, aulaId, validatedData)

\* PATCH /api/new-scheduling/classes/:id: the body set on the row as it is.
patchClass(aulaId, body) ==
  /\ UNCHANGED <<sessions, agendamentos, leads, ids>>
  /\ RespondUpdate("patchClass", 200, aulaId, body, FALSE)
  /\ aulas' = updateAula(aulas, aulaId, Unmarked(body))

\* checkConflicts on [professorId, studentId, startTime, endTime,
\* excludeAulaId]; 0 is a field the body does not carry.
checkConflicts(body) ==
  /\ UNCHANGED <<aulas, sessions, agendamentos, leads, ids>>
  /\ IF body.professorId = 0 \/ body.studentId = 0 \/ body.startTime = 0 \/ body.endTime = 0
       THEN RespondUpdate("checkConflicts", 400, 0, body, FALSE)
     ELSE RespondUpdate("checkConflicts", 200, 0, body,
                        checkSchedulingConflicts(aulas, body.professorId, body.studentId,
                                                 body.startTime, body.endTime,
                                                 body.excludeAulaId) # {})

\* The update bodies: a new start alone, three whole windows (the last on
\* the second day of a daily series), a cancellation, a window that ends
\* before it starts, and an empty body.
UpdateBody(startTime, endTime, status) ==
  [startTime |-> startTime, endTime |-> endTime, professorId |-> 0, status |-> status]
UpdateBodies ==
  {UpdateBody(MkDate(2024, 1, 2, 9, 30), 0, ""),
   UpdateBody(MkDate(2024, 1, 2, 11, 0), MkDate(2024, 1, 2, 12, 0), ""),
   UpdateBody(MkDate(2024, 1, 2, 13, 0), MkDate(2024, 1, 2, 14, 0), ""),
   UpdateBody(MkDate(2024, 1, 3, 9, 30), MkDate(2024, 1, 3, 10, 30), ""),
   UpdateBody(0, 0, "cancelado"),
   UpdateBody(MkDate(2024, 1, 2, 12, 0), MkDate(2024, 1, 2, 11, 0), ""),
   UpdateBody(0, 0, "")}

\* The aula ids of the path: NaN, two ids of the store, an unknown one.
AulaIds == {-1, 1, 2, 9}

\* The bodies of checkConflicts: two windows, one that ends before it
\* starts, one without professorId.
ConflictBody(professorId, startTime, endTime, excludeAulaId) ==
  [professorId |-> professorId, studentId |-> 1, startTime |-> startTime,
   endTime |-> endTime, excludeAulaId |-> excludeAulaId]
ConflictBodies ==
  {ConflictBody(1, MkDate(2024, 1, 2, 9, 30), MkDate(2024, 1, 2, 10, 30), 0),
   ConflictBody(1, MkDate(2024, 1, 2, 9, 30), MkDate(2024, 1, 2, 10, 30), 1),
   ConflictBody(1, MkDate(2024, 1, 2, 11, 0), MkDate(2024, 1, 2, 12, 0), 0),
   ConflictBody(1, MkDate(2024, 1, 2, 12, 0), MkDate(2024, 1, 2, 11, 0), 0),
   ConflictBody(0, MkDate(2024, 1, 2, 9, 30), MkDate(2024, 1, 2, 10, 30), 0)}

CreateClasses ==
  /\ requests < MaxUpdateSteps
  /\ CreateRecurrentScheduling

UpdateClass ==
  /\ requests < MaxUpdateSteps
  /\ \E aulaId \in AulaIds, body \in UpdateBodies :
       /\ aulaId \in {-1, 9} => body = UpdateBody(0, 0, "cancelado")
       /\ updateClass(aulaId, body)
  /\ UNCHANGED <<xpc, xin, xs, now>>

PatchClass ==
  /\ requests < MaxUpdateSteps
  /\ \E aulaId \in AulaIds \ {-1}, body \in UpdateBodies :
       /\ aulaId = 9 => body = UpdateBody(0, 0, "cancelado")
       /\ patchClass(aulaId, body)
  /\ UNCHANGED <<xpc, xin, xs, now>>

CheckConflicts ==
  /\ requests < MaxUpdateSteps
  /\ \E body \in ConflictBodies : checkConflicts(body)
  /\ UNCHANGED <<xpc, xin, xs, now>>

CreateOneSession ==
  /\ requests < MaxUpdateSteps
  /\ CreateSession

\* PATCH /api/sessions/:id with a new window.
MoveSession ==
  /\ requests < MaxUpdateSteps
  /\ \E sessionId \in 1..MaxRows, w \in SessionWindows :
       patchSession(sessionId, [startTime |-> w.startTime, endTime |-> w.endTime,
                                status |-> "", other |-> FALSE])
  /\ UNCHANGED <<xpc, xin, xs, now>>

CheckOneSession ==
  /\ requests < MaxUpdateSteps
  /\ CheckSessionConflicts

NextUpdate ==
  \/ CreateClasses
  \/ UpdateClass
  \/ PatchClass
  \/ CheckConflicts
  \/ CreateOneSession
  \/ MoveSession
  \/ CheckOneSession

SpecUpdate == Init /\ [][NextUpdate]_vars

(***************************************************************************)
(* Two requests in flight (SpecRace).  createRecurrentScheduling and       *)
(* updateClass are async functions: each await of a storage call is a      *)
(* point where the other request may run.  Here xpc, xin and xs are        *)
(* functions of the request slot: the position in the handler, the rule or *)
(* the update handled, and the handler's locals [batch, i, hit, row].      *)
(***************************************************************************)
MaxRaceRequests == 3

Slots == {1, 2}

NoLocals == [batch |-> <<>>, i |-> 0, hit |-> FALSE, row |-> <<>>]

\* The update of the race: the window 2024-01-02 09:30-10:30.
RaceUpdateBody == UpdateBody(MkDate(2024, 1, 2, 9, 30), MkDate(2024, 1, 2, 10, 30), "")

InitRace ==
  /\ InitStore
  /\ xpc = [p \in Slots |-> "idle"]
  /\ xin = [p \in Slots |-> NoInput]
  /\ xs = [p \in Slots |-> NoLocals]
  /\ now \in NowSet

\* The requests begun so far, answered or in flight.
Begun == requests + Cardinality({p \in Slots : xpc[p] # "idle"})

Finish(p) ==
  /\ xpc' = [xpc EXCEPT ![p] = "idle"]
  /\ xin' = [xin EXCEPT ![p] = NoInput]
  /\ xs' = [xs EXCEPT ![p] = NoLocals]

\* createRecurrentScheduling up to the conflict loop: parse, the lookups of
\* professor and student, createAgendamentoRecorrente, the expansion.
RaceCreateBegin(p) ==
  /\ xpc[p] = "idle"
  /\ Begun < MaxRaceRequests
  /\ \E start \in StoreStarts :
       LET body == Agendamento(0, 1, 1, "daily", 1, [has |-> FALSE, days |-> {}],
                               start, StoreEnd)
       IN  IF \/ ~agendamentoRecorrenteValidationSchema(body)
              \/ body.professorId \notin Professors
              \/ body.studentId \notin leads
             THEN /\ Respond("createRecurrentScheduling", 400, 0)
                  /\ UNCHANGED <<aulas, sessions, agendamentos, leads, ids, xpc, xin, xs>>
           ELSE LET agendamento == [body EXCEPT !.id = ids.agendamento]
                IN  /\ agendamentos' = agendamentos \cup {agendamento}
                    /\ ids' = [ids EXCEPT !.agendamento = @ + 1]
                    /\ xpc' = [xpc EXCEPT ![p] = "check"]
                    /\ xin' = [xin EXCEPT ![p] = agendamento]
                    /\ xs' = [xs EXCEPT ![p] =
                                [NoLocals EXCEPT
                                   !.batch = generateRecurrentClasses(agendamento, now),
                                   !.i = 1]]
                    /\ UNCHANGED <<aulas, sessions, leads, requests, last>>
  /\ UNCHANGED now

\* One turn of the conflict loop: await storage.checkSchedulingConflicts for
\* the next candidate.
RaceCreateCheck(p) ==
  /\ xpc[p] = "check"
  /\ xs[p].i <= Len(xs[p].batch)
  /\ LET aula == xs[p].batch[xs[p].i]
         hasConflict == checkSchedulingConflicts(aulas, aula.professorId, aula.studentId,
                                                 aula.startTime, aula.endTime, 0) # {}
     IN  xs' = [xs EXCEPT ![p].i = @ + 1, ![p].hit = @ \/ hasConflict]
  /\ UNCHANGED <<store, xpc, xin, now>>

\* After the loop: the 409, or createMultipleAulas and the 201.
RaceCreateCommit(p) ==
  /\ xpc[p] = "check"
  /\ xs[p].i > Len(xs[p].batch)
  /\ IF xs[p].hit
       THEN /\ Respond("createRecurrentScheduling", 409, xin[p].id)
            /\ UNCHANGED <<aulas, ids>>
     ELSE /\ Respond("createRecurrentScheduling", 201, xin[p].id)
          /\ aulas' = InsertAulas(aulas, xs[p].batch, ids.aula)
          /\ ids' = [ids EXCEPT !.aula = @ + Len(xs[p].batch)]
  /\ Finish(p)
  /\ UNCHANGED <<sessions, agendamentos, leads, now>>

\* updateClass up to the conflict check: parse and await storage.getAulaById.
RaceUpdateBegin(p) ==
  /\ xpc[p] = "idle"
  /\ Begun < MaxRaceRequests
  /\ \E aulaId \in 1..StoreCount :
       IF ~aulaValidationSchemaPartial(RaceUpdateBody)
         THEN /\ RespondUpdate("updateClass", 400, aulaId, RaceUpdateBody, FALSE)
              /\ UNCHANGED <<xpc, xin, xs>>
       ELSE IF ~\E a \in aulas : a.id = aulaId
         THEN /\ RespondUpdate("updateClass", 404, aulaId, RaceUpdateBody, FALSE)
              /\ UNCHANGED <<xpc, xin, xs>>
       ELSE /\ xpc' = [xpc EXCEPT ![p] = "found"]
            /\ xin' = [xin EXCEPT ![p] = [id |-> aulaId, body |-> RaceUpdateBody]]
            /\ xs' = [xs EXCEPT ![p] =
                        [NoLocals EXCEPT !.row = <<CHOOSE a \in aulas : a.id = aulaId>>]]
            /\ UNCHANGED <<requests, last>>
  /\ UNCHANGED <<aulas, sessions, agendamentos, leads, ids, now>>

\* The new window of the update in flight in slot p.
RaceWindow(p) ==
  LET body == xin[p].body
      existingAula == xs[p].row[1]
  IN  [startTime |-> IF body.startTime # 0 THEN body.startTime ELSE existingAula.startTime,
       endTime |-> IF body.endTime # 0 THEN body.endTime ELSE existingAula.endTime]

\* await storage.checkSchedulingConflicts for the new window, the aula
\* itself excluded, and the 409.
RaceUpdateCheck(p) ==
  /\ xpc[p] = "found"
  /\ LET existingAula == xs[p].row[1]
         hasConflict ==
           checkSchedulingConflicts(aulas, existingAula.professorId, existingAula.studentId,
                                    RaceWindow(p).startTime, RaceWindow(p).endTime,
                                    xin[p].id) # {}
     IN  IF hasConflict
           THEN /\ RespondUpdate("updateClass", 409, xin[p].id, xin[p].body, TRUE)
                /\ Finish(p)
         ELSE /\ xpc' = [xpc EXCEPT ![p] = "write"]
              /\ UNCHANGED <<xin, xs, requests, last>>
  /\ UNCHANGED <<aulas, sessions, agendamentos, leads, ids, now>>

\* await storage.updateAula with the marks of the modification, and the
\* answer.
RaceUpdateWrite(p) ==
  /\ xpc[p] = "write"
  /\ LET existingAula == xs[p].row[1]
         snapshot == existingAula.originalStartTime = 0
         validatedData ==
           [Unmarked(xin[p].body) EXCEPT
              !.setModified = TRUE,
              !.originalStartTime = IF snapshot THEN existingAula.startTime ELSE 0,
              !.originalEndTime = IF snapshot THEN existingAula.endTime ELSE 0]
     IN  aulas' = updateAula(aulas, xin[p].id, validatedData)
  /\ RespondUpdate("updateClass", 200, xin[p].id, xin[p].body, FALSE)
  /\ Finish(p)
  /\ UNCHANGED <<sessions, agendamentos, leads, ids, now>>

NextRace ==
  \E p \in Slots :
    \/ RaceCreateBegin(p)
    \/ RaceCreateCheck(p)
    \/ RaceCreateCommit(p)
    \/ RaceUpdateBegin(p)
    \/ RaceUpdateCheck(p)
    \/ RaceUpdateWrite(p)

SpecRace == InitRace /\ [][NextRace]_vars

(***************************************************************************)
(* Properties of the expansion (SpecExpand, FairSpecExpand).               *)
(***************************************************************************)
Out == xs.out
Finished == xpc # "idle" /\ xs.done
OnAulas == xpc \in {"grc", "gcfr"}
OnSessions == xpc = "sess"

\* The rule's fields, whichever request shape carries them.
RuleType == IF OnSessions THEN xin.recurrenceType ELSE xin.type
RuleInterval == IF OnSessions THEN xin.recurrenceInterval ELSE xin.interval
RuleStart == IF OnSessions THEN xin.startTime ELSE xin.startDate
RuleHasWeekDays == xin.hasWeekDays
RuleWeekDays == IF OnSessions THEN xin.recurrenceWeekDays ELSE xin.weekDays
RuleDayNames == IF OnSessions THEN dayNamesPt ELSE dayNames
RuleEndsNever ==
  IF OnSessions THEN xin.recurrenceEndType = "never"
  ELSE ~xin.hasEndDate /\ xin.maxOccurrences = 0
RuleEndsByCount ==
  IF OnSessions THEN xin.recurrenceEndType = "count" ELSE xin.maxOccurrences # 0
RuleCount == IF OnSessions THEN xin.recurrenceEndCount ELSE xin.maxOccurrences

WeekdayName(t) == RuleDayNames[getDay(t) + 1]
OutDay(i) == DayNumber(Out[i].startTime)
StartDay == DayNumber(RuleStart)
\* weekDays as the handler that runs spells Monday, Wednesday and Friday.
Monday == RuleDayNames[2]
Wednesday == RuleDayNames[4]
Friday == RuleDayNames[6]

\* C3: for a weekly rule with a non-empty weekDays set every emitted
\* instance, the first included, falls on a weekday of weekDays; a start
\* date off weekDays is not emitted.
C3_WeekdayFilter ==
  (/\ xpc # "idle"
   /\ RuleType = "weekly"
   /\ RuleInterval >= 1
   /\ RuleHasWeekDays
   /\ RuleWeekDays # {})
    => \A i \in 1..Len(Out) : WeekdayName(Out[i].startTime) \in RuleWeekDays

\* C4: a weekly rule whose weekDays is absent or empty emits the start date
\* and then one instance every 7 * interval days, never an empty series.
C4_WeeklyWithoutWeekDays ==
  (/\ xpc \in {"grc", "sess"}
   /\ RuleType = "weekly"
   /\ RuleInterval >= 1
   /\ ~RuleHasWeekDays \/ RuleWeekDays = {})
    => /\ \A i \in 1..Len(Out) : OutDay(i) = StartDay + 7 * RuleInterval * (i - 1)
       /\ xs.done => Len(Out) >= 1

\* C5: weekly, interval 1, weekDays {monday, wednesday}, no end: every
\* 4-week window holds exactly 8 instances, one on each of its Mondays and
\* Wednesdays.
C5_FourWeekWindow ==
  (/\ Finished
   /\ xpc \in {"grc", "sess"}
   /\ RuleType = "weekly"
   /\ RuleInterval = 1
   /\ RuleHasWeekDays
   /\ RuleWeekDays = {Monday, Wednesday}
   /\ RuleEndsNever)
    => \A shift \in 0..MaxWindowShift :
         LET window == (StartDay + shift)..(StartDay + shift + 27)
         IN  /\ Cardinality({i \in 1..Len(Out) : OutDay(i) \in window}) = 8
             /\ \A d \in window :
                  WeekdayName(d * MinutesPerDay) \in RuleWeekDays
                    => \E i \in 1..Len(Out) : OutDay(i) = d

\* C6: weekly, interval 2, weekDays {friday}, starting on a Friday: the
\* instances are the Fridays of weeks 0, 2, 4, ... from the start date, never
\* a Friday of an odd week.
C6_EveryOtherFriday ==
  (/\ xpc # "idle"
   /\ RuleType = "weekly"
   /\ RuleInterval = 2
   /\ RuleHasWeekDays
   /\ RuleWeekDays = {Friday}
   /\ WeekdayName(RuleStart) = Friday)
    => \A i \in 1..Len(Out) : OutDay(i) = StartDay + 14 * (i - 1)

C6_Witness ==
  /\ Finished
  /\ OnSessions
  /\ RuleType = "weekly"
  /\ RuleInterval = 2
  /\ RuleWeekDays = {Friday}
  /\ WeekdayName(RuleStart) = Friday
  /\ Len(Out) >= 4

\* C7: monthly, interval 1, anchor day-of-month 31: the i-th instance lies
\* in the i-th calendar month from the start, on the 31st or, in a shorter
\* month, on that month's last day.
C7_MonthlyClamp ==
  (/\ xpc \in {"grc", "sess"}
   /\ RuleType = "monthly"
   /\ RuleInterval = 1
   /\ getDate(RuleStart) = 31)
    => \A i \in 1..Len(Out) :
         LET t == Out[i].startTime
         IN  /\ MonthIndex(t) = MonthIndex(RuleStart) + (i - 1)
             /\ getDate(t) = IF DaysInMonth(t) < 31 THEN DaysInMonth(t) ELSE 31

\* The loop stopped on its horizon: generateRecurrentClasses ran past
\* maxDate, the other two hit their iteration ceilings.
HorizonTruncated ==
  CASE xpc = "grc"  -> xs.cur > MaxDateOf(now)
    [] xpc = "gcfr" -> xs.count > SafetyLimit
    [] OTHER        -> xs.count > LoopGuard

\* C8: a rule that ends by count N yields exactly N instances, for every
\* recurrence type, unless the horizon truncates first.
C8_CountBound ==
  (/\ Finished
   /\ RuleEndsByCount
   /\ RuleInterval >= 1
   /\ RuleType = "weekly" => (RuleHasWeekDays /\ RuleWeekDays # {})
   /\ ~HorizonTruncated)
    => Len(Out) = RuleCount

\* The ceiling on the instances of one expansion.
HorizonCeiling == 365

\* C9: a rule with no end condition never expands to more instances than
\* the ceiling, wherever its start date lies.
C9_HorizonSafety ==
  (xpc # "idle" /\ RuleEndsNever /\ RuleInterval >= 1) => Len(Out) <= HorizonCeiling

\* C10: every expansion loop reaches its exit.
C10_Terminates == (xpc # "idle") ~> xs.done

C10_Witness ==
  /\ Finished
  /\ xpc = "grc"
  /\ RuleType = "weekly"
  /\ RuleWeekDays = {Monday, Wednesday}
  /\ RuleEndsNever
  /\ WeekdayName(RuleStart) = Friday
  /\ Len(Out) >= 2

(***************************************************************************)
(* Properties of the store (Spec).                                         *)
(***************************************************************************)
\* The request handled last was refused or failed.
LastFailed ==
  /\ last.op \in {"createRecurrentScheduling", "postSessions"}
  /\ last.batch # 0
  /\ last.status \notin {200, 201}

\* The instances in the store that the request handled last built.
LastBatchRows ==
  IF last.op = "postSessions"
    THEN {r \in sessions : r.recurrenceGroupId = last.batch}
    ELSE {a \in aulas : a.agendamentoRecorrenteId = last.batch}

\* C1: when createRecurrentScheduling or POST /api/sessions answers with a
\* conflict or a failure, none of the instances of the batch it expanded is
\* in the store.
C1_AllOrNothing == LastFailed => LastBatchRows = {}

\* C2: the store never holds two non-cancelled instances of the same
\* professor whose time windows overlap.
C2_NoOverlap ==
  /\ \A a, b \in aulas :
       (/\ a.id # b.id
        /\ a.professorId = b.professorId
        /\ a.status # "cancelado"
        /\ b.status # "cancelado")
         => ~Overlaps(a.startTime, a.endTime, b.startTime, b.endTime)
  /\ \A a, b \in sessions :
       (/\ a.id # b.id
        /\ a.trainerId = b.trainerId
        /\ a.status # "cancelado"
        /\ b.status # "cancelado")
         => ~Overlaps(a.startTime, a.endTime, b.startTime, b.endTime)

(***************************************************************************)
(* Properties of the emitted instances (SpecExpand).                       *)
(***************************************************************************)
\* C11: every instance generateRecurrentClasses and the POST /api/sessions
\* loop emit starts at the anchor's time of day and ends strictly after it
\* starts, whatever the anchor's time of day.
C11_EndAfterStart ==
  (xpc \in {"grc", "sess"} /\ RuleInterval >= 1)
    => \A i \in 1..Len(Out) :
         /\ TimeOfDay(Out[i].startTime) = TimeOfDay(RuleStart)
         /\ Out[i].endTime > Out[i].startTime

\* The rule {weekly, interval 1, weekDays [tuesday], start 2024-01-02 09:00,
\* end by count 3}, as handed to generateRecurrentClasses or POST /api/sessions.
ExampleRule ==
  /\ xpc \in {"grc", "sess"}
  /\ RuleType = "weekly"
  /\ RuleInterval = 1
  /\ RuleHasWeekDays
  /\ RuleWeekDays = {RuleDayNames[3]}
  /\ RuleStart = MkDate(2024, 1, 2, 9, 0)
  /\ RuleEndsByCount
  /\ RuleCount = 3

\* C12: the example rule expands to exactly three instances, 09:00-10:00 on
\* 2024-01-02, 2024-01-09 and 2024-01-16, of which only the first is the
\* series anchor (POST /api/sessions marks it with isParent).
C12_ExampleRule ==
  (Finished /\ ExampleRule)
    => /\ Len(Out) = 3
       /\ \A i \in 1..Len(Out) :
            /\ Out[i].startTime = MkDate(2024, 1, 2 + 7 * (i - 1), 9, 0)
            /\ Out[i].endTime = MkDate(2024, 1, 2 + 7 * (i - 1), 10, 0)
            /\ OnSessions => (Out[i].isParent <=> i = 1)

(***************************************************************************)
(* Properties of the series in the store (Spec).                           *)
(***************************************************************************)
\* The request handled last was a POST /api/sessions that built a series.
LastSeries ==
  IF last.op = "postSessions" /\ last.batch # 0
    THEN {r \in sessions : r.recurrenceGroupId = last.batch}
    ELSE {}

\* C13: a non-empty series POST /api/sessions created holds exactly one
\* anchor (is_recurrence_parent), no instance of the series starts before
\* the anchor, and every other instance of it references the anchor's id as
\* its parent.
C13_SeriesAnchor ==
  LastSeries # {}
    => LET anchors == {r \in LastSeries : r.isRecurrenceParent}
       IN  /\ Cardinality(anchors) = 1
           /\ \A a \in anchors :
                /\ \A r \in LastSeries : a.startTime <= r.startTime
                /\ \A r \in LastSeries \ {a} : r.parentSessionId = a.id

(***************************************************************************)
(* Further properties of the expansion (SpecExpand).                       *)
(***************************************************************************)
\* C14: two distinct instances of one expansion of generateRecurrentClasses
\* or generateClassesFromRecurrence (one rule, one professor) never overlap:
\* one ends no later than the other starts.
C14_SameRuleDisjoint ==
  (OnAulas /\ RuleInterval >= 1)
    => \A i, j \in 1..Len(Out) :
         i < j => \/ Out[i].endTime <= Out[j].startTime
                  \/ Out[j].endTime <= Out[i].startTime

RuleEndsByDate ==
  IF OnSessions THEN xin.recurrenceEndType = "date" ELSE xin.hasEndDate

RuleEndDate == IF OnSessions THEN xin.recurrenceEndDate ELSE xin.endDate

\* C15: for a daily rule of interval 1 that ends by date, the finished
\* expansion holds an instance on every calendar day from the start date to
\* the end date, the end date included, and none after it.
C15_EndDateInclusive ==
  (/\ Finished
   /\ RuleType = "daily"
   /\ RuleInterval = 1
   /\ RuleEndsByDate
   /\ ~HorizonTruncated)
    => {OutDay(i) : i \in 1..Len(Out)} = StartDay..DayNumber(RuleEndDate)

(***************************************************************************)
(* Properties of the conflict check (SpecConflicts).                       *)
(***************************************************************************)
\* The request answered last was a conflict check that ran its query.
Checked == last.op = "checkSessionConflicts" /\ last.status = 200

\* The candidate window of the check answered last, padded by the tolerance.
PaddedStart == last.request.date * MinutesPerDay + last.request.startTime - ToleranceMinutes
PaddedEnd == last.request.date * MinutesPerDay + last.request.endTime + ToleranceMinutes

\* The session's window overlaps the padded candidate window (half-open test).
HitsCandidate(s) == Overlaps(PaddedStart, PaddedEnd, s.startTime, s.endTime)

\* C16: the check reports every booked ('agendado') session of the
\* candidate's professor whose window the padded candidate window overlaps,
\* and reports no session of another professor.
C16_PaddedOverlapReported ==
  Checked
    => /\ \A s \in sessions :
            (/\ s.trainerId = last.request.trainerId
             /\ s.status = "agendado"
             /\ HitsCandidate(s))
              => s.id \in last.conflicts
       /\ \A s \in sessions :
            s.id \in last.conflicts => s.trainerId = last.request.trainerId

\* C17: every session the check reports overlaps the padded candidate
\* window in the half-open sense (a1 < b2 and b1 < a2): a session that ends
\* exactly at the padded start, or starts exactly at the padded end, is not
\* reported.
C17_HalfOpenOverlap ==
  Checked => \A s \in sessions : s.id \in last.conflicts => HitsCandidate(s)

\* The probed slot that begins at minute slot of the candidate's date, as
\* long as the candidate, touches the session s of the candidate's trainer.
TouchesSlot(s, slot) ==
  LET slotStart == last.request.date * MinutesPerDay + slot
      slotEnd == slotStart + (last.request.endTime - last.request.startTime)
  IN  /\ s.trainerId = last.request.trainerId
      /\ DayNumber(s.startTime) = last.request.date
      /\ \/ Between(s.startTime, slotStart, slotEnd)
         \/ Between(s.endTime, slotStart, slotEnd)
         \/ (s.startTime <= slotStart /\ s.endTime >= slotEnd)
Suggested == {last.suggestions[i] : i \in DOMAIN last.suggestions}

\* C18: a cancelled session never contributes a conflict: the check never
\* reports it, whatever its window, and when alternatives are probed, a slot
\* that only cancelled sessions touch is suggested.
C18_CancelledIgnored ==
  Checked
    => /\ \A s \in sessions : s.status = "cancelado" => s.id \notin last.conflicts
       /\ last.conflicts # {}
            => \A i \in 1..ProbedSlots :
                 (\A s \in sessions :
                    TouchesSlot(s, TimeSlots[i]) => s.status = "cancelado")
                   => TimeSlots[i] \in Suggested

\* A check with conflicts, in a store where a cancelled session of the same
\* trainer overlaps the padded candidate and touches a suggested slot.
C18_Witness ==
  /\ Checked
  /\ last.conflicts # {}
  /\ \E s \in sessions :
       /\ s.status = "cancelado"
       /\ s.trainerId = last.request.trainerId
       /\ HitsCandidate(s)
       /\ s.id \notin last.conflicts
       /\ \E slot \in Suggested : TouchesSlot(s, slot)

\* C19: a session of the candidate's professor that is not cancelled (a
\* completed one for instance) still occupies its slot: the check reports it
\* when it starts on the candidate's date and the padded candidate window
\* overlaps its window.
C19_CompletedStillOccupies ==
  Checked
    => \A s \in sessions :
         (/\ s.trainerId = last.request.trainerId
          /\ s.status # "cancelado"
          /\ DayNumber(s.startTime) = last.request.date
          /\ HitsCandidate(s))
           => s.id \in last.conflicts

\* The check with the window of session a as candidate, on the date a starts,
\* reports the stored session b.
ReportsAgainst(a, b) ==
  SessionsBusy({b}, a.trainerId, DayNumber(a.startTime),
               a.startTime - ToleranceMinutes, a.endTime + ToleranceMinutes,
               a.startTime, a.endTime) # {}

\* C20: the check is symmetric: for two stored sessions a and b of the same
\* professor, neither cancelled, candidate a is in conflict with existing b
\* exactly when candidate b is in conflict with existing a.
C20_Symmetric ==
  \A a, b \in sessions :
    (a.trainerId = b.trainerId /\ a.status # "cancelado" /\ b.status # "cancelado")
      => (ReportsAgainst(a, b) <=> ReportsAgainst(b, a))

(***************************************************************************)
(* Properties of the validation of a batch (SpecBatch).                    *)
(***************************************************************************)
\* The batch validated last was committed.
BatchCommitted == last.op = "validateAndCreate" /\ last.status = 201

SlotConflicts(slot) ==
  LET slotStart == last.request.date * MinutesPerDay + slot
      slotEnd == slotStart + (last.request.endTime - last.request.startTime)
  IN  {s \in SessionsBusy(sessions, last.request.trainerId, last.request.date,
                          slotStart - ToleranceMinutes, slotEnd + ToleranceMinutes,
                          slotStart, slotEnd) : s.leadId \in leads}

\* C22: the check suggests nothing when it found no conflict, and otherwise
\* at most 5 slots of the half-hour ladder, in ladder order, each of which
\* gives zero conflicts under the test of the check itself (same padding,
\* same status filter).
C22_SuggestionsAreFree ==
  Checked
    => /\ last.conflicts = {} => last.suggestions = <<>>
       /\ Len(last.suggestions) <= 5
       /\ \A i \in DOMAIN last.suggestions :
            /\ \E k \in DOMAIN TimeSlots : TimeSlots[k] = last.suggestions[i]
            /\ \A j \in DOMAIN last.suggestions : i < j => last.suggestions[i] < last.suggestions[j]
            /\ SlotConflicts(last.suggestions[i]) = {}

(***************************************************************************)
(* Properties of the edits and of the conflict queries (SpecUpdate).       *)
(***************************************************************************)
\* The request answered last was a conflict query.
ConflictAnswered == last.op \in {"checkConflicts", "checkSessionConflicts"}

\* The query answered last was malformed: its window does not end after it
\* starts, or it names no professor.
MalformedQuery ==
  \/ last.request.endTime <= last.request.startTime
  \/ (last.op = "checkConflicts" /\ last.request.professorId = 0)
  \/ (last.op = "checkSessionConflicts" /\ last.request.trainerId = 0)

\* C23: a conflict query is answered with an error exactly when it is
\* malformed (window end not after its start, or no professor id), and with
\* a normal result otherwise, a found conflict included.
C23_ErrorOnlyForMalformed ==
  ConflictAnswered
    => /\ last.status \in {200, 400}
       /\ last.status = 400 <=> MalformedQuery

\* The request answered last was an accepted update of an aula of the store
\* that gave a new startTime or endTime.
TimeChangeAccepted ==
  /\ last.op \in {"updateClass", "patchClass"}
  /\ last.status = 200
  /\ (last.request.startTime # 0 \/ last.request.endTime # 0)
  /\ \E a \in aulas : a.id = last.id

\* C24: an update that changes startTime or endTime is accepted only when
\* the new window is free of conflicts with the other instances, the moved
\* one excluded: after an accepted time change the moved aula is in
\* conflict with no other aula.
C24_MoveIsConflictChecked ==
  TimeChangeAccepted
    => \A a \in aulas :
         a.id = last.id
           => checkSchedulingConflicts(aulas, a.professorId, a.studentId,
                                       a.startTime, a.endTime, a.id) = {}

\* A step that changed the startTime or the endTime of the aula id.
TimeChanged(id) ==
  \E a \in aulas, b \in aulas' :
    /\ a.id = id
    /\ b.id = id
    /\ (a.startTime # b.startTime \/ a.endTime # b.endTime)

\* C25: originalStartTime and originalEndTime of an aula are written once,
\* by the first step that changes its window, with the startTime and
\* endTime it had before that step, and no later step changes them.
C25_OriginalWrittenOnce ==
  [][\A a \in aulas : \A b \in aulas' :
       a.id = b.id
         => /\ (a.originalStartTime = 0 /\ TimeChanged(a.id))
                 => (b.originalStartTime = a.startTime /\ b.originalEndTime = a.endTime)
            /\ a.originalStartTime # 0
                 => (b.originalStartTime = a.originalStartTime
                     /\ b.originalEndTime = a.originalEndTime)]_vars

\* C26: after every step, an aula with isModified has its originalStartTime
\* and originalEndTime set, and an aula whose startTime or endTime the step
\* changed has isModified.
C26_ModifiedHasOriginals ==
  [][\A b \in aulas' :
       /\ b.isModified => (b.originalStartTime # 0 /\ b.originalEndTime # 0)
       /\ \A a \in aulas :
            (a.id = b.id /\ (a.startTime # b.startTime \/ a.endTime # b.endTime))
              => b.isModified]_vars

\* C27: a step of updateClass, accepted, rejected or not found, changes at
\* most the aula of its id: every other aula is in the store as it was, no
\* aula is added or removed, and the rules and the sessions are unchanged.
C27_OnlyOneInstance ==
  [][last'.op = "updateClass"
       => /\ agendamentos' = agendamentos
          /\ sessions' = sessions
          /\ {a.id : a \in aulas'} = {a.id : a \in aulas}
          /\ \A a \in aulas : a.id # last'.id => a \in aulas']_vars

\* An accepted time change by updateClass of one aula of a series whose
\* other aula is untouched, the rule of the series in the store.
C27_Witness ==
  /\ last.op = "updateClass"
  /\ last.status = 200
  /\ \E a, b \in aulas :
       /\ a.id = last.id
       /\ a.isModified
       /\ a.startTime = last.request.startTime
       /\ b.id # a.id
       /\ b.agendamentoRecorrenteId = a.agendamentoRecorrenteId
       /\ ~b.isModified
       /\ \E ag \in agendamentos : ag.id = a.agendamentoRecorrenteId

(***************************************************************************)
(* Properties of the creation handlers on the store (Spec), continued.     *)
(***************************************************************************)
\* C28: a rule whose interval is not positive is rejected before any write:
\* the store never holds a recurrence rule with interval <= 0.
C28_IntervalValidated ==
  \A ag \in agendamentos : ag.type # "weeklySchedule" => ag.interval >= 1

\* C30: a step of createRecurrentScheduling that answers 400 or 409 leaves
\* the tables as they were: no recurrence rule and no aula is added.
C30_ErrorLeavesStore ==
  [][(last'.op = "createRecurrentScheduling" /\ last'.status \in {400, 409})
       => UNCHANGED <<aulas, sessions, agendamentos, leads>>]_vars

(***************************************************************************)
(* Properties of requests in flight (SpecRace).                            *)
(***************************************************************************)
\* C29: however the steps of two requests interleave, the store never holds
\* two non-cancelled aulas of one professor whose windows overlap.
C29_RaceSerialized ==
  \A a, b \in aulas :
    (/\ a.id # b.id
     /\ a.professorId = b.professorId
     /\ a.status # "cancelado"
     /\ b.status # "cancelado")
      => ~Overlaps(a.startTime, a.endTime, b.startTime, b.endTime)

====
